---- MODULE Spec2Model ----
(***************************************************************************)
(* Model of authorization_code_flow.py: the interactive authorization-code *)
(* login with a one-shot local callback listener (a daemon thread), the    *)
(* on-behalf-of exchange, optional scope discovery, and the JSON-RPC       *)
(* session (initialize, tools/list, tools/call loop) driven with the       *)
(* downstream token.                                                       *)
(***************************************************************************)
EXTENDS Integers, Sequences, FiniteSets, TLC

(* ------------------------------ bounds -------------------------------- *)
\* redirect callbacks the environment sends while nothing accepts them
MaxLost == 1
\* tools/call requests the user makes before the model stops prompting
MaxCalls == 2
\* longest scopes_supported list the metadata endpoint returns
MaxScopes == 3
\* longest payload text, in tokens, handed to the response parser
MaxPayload == 3

(* ----------------------------- constants ------------------------------ *)
None == "<None>"
\* line 142: state = "agent-platform-obo-sim"
SentState == "agent-platform-obo-sim"
\* line 38: the path of REDIRECT_URI
RedirectPath == "/callback"

ConfigKeys == {"TENANT_ID", "CLIENT_ID", "CLIENT_SECRET", "REDIRECT_URI",
               "SCOPE", "RESOURCE_HOST"}
\* lines 35-49: the value a setting takes when the environment does not
\* give it
ConfigDefault ==
    [TENANT_ID |-> "<YOUR_TENANT_ID>", CLIENT_ID |-> "<YOUR_CLIENT_ID>",
     CLIENT_SECRET |-> "<YOUR_CLIENT_SECRET>",
     REDIRECT_URI |-> "http://localhost:53682/callback",
     SCOPE |-> "<CLIENT_APP_ID>/user_impersonation",
     RESOURCE_HOST |-> "https://<your-mcp-host>"]
\* a deployment's own values
ConfigReal ==
    [TENANT_ID |-> "contoso", CLIENT_ID |-> "app-1",
     CLIENT_SECRET |-> "s3cret",
     REDIRECT_URI |-> "http://localhost:53682/callback",
     SCOPE |-> "api://app-1/user_impersonation",
     RESOURCE_HOST |-> "https://mcp.example"]
\* a setting is given as empty, is left at its default, or is given
ConfigValues(k) == {"", ConfigDefault[k], ConfigReal[k]}
\* val.startswith("<") on the values above
StartsWithAngle(val) ==
    val \in {"<YOUR_TENANT_ID>", "<YOUR_CLIENT_ID>", "<YOUR_CLIENT_SECRET>",
             "<CLIENT_APP_ID>/user_impersonation"}
\* main line 129: `not val or val.startswith("<")`
ConfigRejected(val) == val = "" \/ StartsWithAngle(val)
\* the values that still carry a "<...>" placeholder
IsPlaceholder(val) ==
    val \in {"<YOUR_TENANT_ID>", "<YOUR_CLIENT_ID>", "<YOUR_CLIENT_SECRET>",
             "<CLIENT_APP_ID>/user_impersonation", "https://<your-mcp-host>"}
GenericScopes == {"openid", "profile", "email", "offline_access"}
ScopeNames == {"openid", "profile", "email", "custom.scope", "api.read"}

VARIABLES
    config,            \* the six required settings (lines 35-49)
    MCP_SCOPE,         \* the optional downstream scope ("" when not set)
    pc,                \* position of the main flow
    exit_code,         \* -1 while running, else the process exit status
    lpc,               \* position of the listener thread
    request,           \* the request the handler is working on
    auth_code_bucket,  \* _auth_code_bucket: [code, state, error]
    code_received,     \* _code_received (threading.Event)
    lost,              \* matching callbacks that found nobody listening
    writers,           \* inbound requests that wrote the bucket
    consumed,          \* times the main flow took the result of the wait
    timed_out,         \* the wait at line 148 ended by its timeout
    late_callback,     \* the callback was accepted after that timeout
    code,              \* local `code` of main (line 152)
    user_token,        \* local `user_token` of main (line 177)
    mcp_scope,         \* local `mcp_scope` of main
    mcp_token,         \* local `mcp_token` of main (line 233)
    auth_calls,        \* calls of acquire_token_by_authorization_code
    meta_calls,        \* GETs of the metadata endpoint
    obo_calls,         \* calls of acquire_token_on_behalf_of
    obo_assertion,     \* the user_assertion handed to the last OBO call
    obo_scope,         \* the scope handed to the last OBO call
    bearer,            \* headers["Authorization"] without the "Bearer "
    tools,             \* local `tools` of main (line 285)
    call_id,           \* local `call_id` of main
    choice,            \* local `choice` of main (lines 305, 314)
    typed,             \* what the user typed per parameter (line 340)
    call_payload,      \* local `call_payload` of main (line 359)
    sent,              \* JSON-RPC requests posted to the resource, in order
    rejected,          \* the loop has refused a selection locally
    rpc_failed,        \* a response was not 200 or could not be parsed
    fn_arg,            \* the argument a function is applied to on its own
    fn_ret             \* its result

vars == <<config, MCP_SCOPE, pc, exit_code, lpc, request, auth_code_bucket,
          code_received, lost, writers, consumed, timed_out,
          late_callback, code, user_token, mcp_scope, mcp_token, auth_calls,
          meta_calls, obo_calls, obo_assertion, bearer, tools, call_id,
          choice, typed, call_payload, sent, rejected, rpc_failed, obo_scope,
          fn_arg, fn_ret>>

listenerVars == <<lpc, request, auth_code_bucket, code_received, lost,
                  writers, late_callback>>
waitVars == <<consumed, timed_out>>
brokerVars == <<code, user_token, mcp_scope, mcp_token, auth_calls,
                meta_calls, obo_calls, obo_assertion, obo_scope>>
rpcVars == <<bearer, tools, call_id, choice, typed, call_payload, sent,
            rejected, rpc_failed>>
configVars == <<config, MCP_SCOPE>>
fnVars == <<fn_arg, fn_ret>>

(* ------------------------------ values -------------------------------- *)
NoRequest == [path |-> None, error |-> None, error_description |-> None,
              code |-> None, state |-> None]
\* a GET for some other path (favicon, a port probe)
OtherRequest == [path |-> "/favicon.ico", error |-> None,
                 error_description |-> None, code |-> None, state |-> None]
\* the query parameters parse_qs yields for a GET of the redirect path
CallbackRequests ==
    { r \in [path : {RedirectPath}, error : {None, "access_denied"},
             error_description : {None, "user cancelled"},
             code : {None, "c1"}, state : {None, SentState, "forged"}] :
        r.error = None => r.error_description = None }
Requests == CallbackRequests \cup {OtherRequest}

EmptyBucket == [code |-> None, state |-> None, error |-> None]
NoToken == [token |-> None, expired |-> FALSE]
NoPayload == [id |-> 0, name |-> None, arguments |-> <<>>]

\* the main flow has neither returned nor exited: the daemon thread lives
Alive == exit_code = -1
\* main has printed the authorization URL (line 145): from then on the
\* browser may be redirected to the callback
UrlPresented == pc \notin {"check_config", "start_listener", "print_url"}

\* the program's variables after the module globals are set (lines 35-56)
ProgramInit ==
    /\ config \in UNION { { [ConfigReal EXCEPT ![k] = v] :
                                v \in ConfigValues(k) } : k \in ConfigKeys }
    /\ MCP_SCOPE \in {"", "custom.scope"}
    /\ pc = "check_config"
    /\ exit_code = -1
    /\ lpc = "idle"
    /\ request = NoRequest
    /\ auth_code_bucket = EmptyBucket
    /\ code_received = FALSE
    /\ lost = 0
    /\ writers = 0
    /\ consumed = 0
    /\ timed_out = FALSE
    /\ late_callback = FALSE
    /\ code = None
    /\ user_token = NoToken
    /\ mcp_scope = None
    /\ mcp_token = None
    /\ auth_calls = 0
    /\ meta_calls = 0
    /\ obo_calls = 0
    /\ obo_assertion = NoToken
    /\ obo_scope = None
    /\ bearer = None
    /\ tools = <<>>
    /\ call_id = 0
    /\ choice = None
    /\ typed = <<>>
    /\ call_payload = NoPayload
    /\ sent = <<>>
    /\ rejected = FALSE
    /\ rpc_failed = FALSE

NotRun == "<not run>"

Init ==
    /\ ProgramInit
    /\ fn_arg = None
    /\ fn_ret = NotRun

\* sys.exit(status), or an uncaught exception (status 1)
Exit(status) ==
    /\ pc' = "exited"
    /\ exit_code' = status

(* --------------------------- listener thread -------------------------- *)
\* start_http_listener up to handle_request(): HTTPServer(...) binds and
\* listens in its constructor
ListenerBind ==
    /\ Alive
    /\ lpc = "starting"
    /\ lpc' = "listening"
    /\ UNCHANGED <<request, auth_code_bucket, code_received, lost, writers,
                   late_callback>>
    /\ UNCHANGED <<pc, exit_code, waitVars, brokerVars, rpcVars, configVars,
                   fnVars>>

\* the constructor raises (port in use): the thread ends with a traceback
ListenerBindFails ==
    /\ Alive
    /\ lpc = "starting"
    /\ lpc' = "bind_failed"
    /\ UNCHANGED <<request, auth_code_bucket, code_received, lost, writers,
                   late_callback>>
    /\ UNCHANGED <<pc, exit_code, waitVars, brokerVars, rpcVars, configVars,
                   fnVars>>

\* AfterRequest had the listener called serve_forever()
AfterRequest_ServeForever == "listening"

\* where the listener goes once do_GET has returned: handle_request()
\* serves a single request and start_http_listener returns
AfterRequest == "stopped"

\* do_GET lines 61-65: handle_request() takes one request; another path is
\* answered 404 and do_GET returns
AcceptRequest(r) ==
    /\ Alive
    /\ lpc = "listening"
    /\ r \in CallbackRequests => UrlPresented
    /\ IF r.path # RedirectPath
         THEN lpc' = AfterRequest /\ request' = NoRequest
                /\ UNCHANGED late_callback
         ELSE lpc' = "handling" /\ request' = r
                /\ late_callback' = timed_out
    /\ UNCHANGED <<auth_code_bucket, code_received, lost, writers>>
    /\ UNCHANGED <<pc, exit_code, waitVars, brokerVars, rpcVars, configVars,
                   fnVars>>

\* HandlerStore with lines 70-71 run also when the request has an error
HandlerStore_Both ==
    /\ Alive
    /\ lpc = "handling"
    /\ auth_code_bucket' =
         IF request.error # None
           THEN [code |-> request.code, state |-> request.state,
                 error |-> IF request.error_description # None
                             THEN request.error_description
                             ELSE "Unknown error"]
           ELSE [auth_code_bucket EXCEPT !.code = request.code,
                                         !.state = request.state]
    /\ writers' = writers + 1
    /\ lpc' = "stored"
    /\ UNCHANGED <<request, code_received, lost, late_callback>>
    /\ UNCHANGED <<pc, exit_code, waitVars, brokerVars, rpcVars, configVars,
                   fnVars>>

\* do_GET lines 66-71 (main reads "error" and "code" but never "state")
HandlerStore ==
    /\ Alive
    /\ lpc = "handling"
    /\ auth_code_bucket' =
         IF request.error # None
           THEN [auth_code_bucket EXCEPT !.error =
                   IF request.error_description # None
                     THEN request.error_description ELSE "Unknown error"]
           ELSE [auth_code_bucket EXCEPT !.code = request.code,
                                         !.state = request.state]
    /\ writers' = writers + 1
    /\ lpc' = "stored"
    /\ UNCHANGED <<request, code_received, lost, late_callback>>
    /\ UNCHANGED <<pc, exit_code, waitVars, brokerVars, rpcVars, configVars,
                   fnVars>>

\* do_GET lines 73-77, or lines 78-82 when writing the reply raises (the
\* browser went away): then the event is never set
HandlerFinish ==
    /\ Alive
    /\ lpc = "stored"
    /\ \E fault \in BOOLEAN :
         code_received' = IF fault THEN code_received ELSE TRUE
    /\ lpc' = AfterRequest
    /\ request' = NoRequest
    /\ UNCHANGED <<auth_code_bucket, lost, writers, late_callback>>
    /\ UNCHANGED <<pc, exit_code, waitVars, brokerVars, rpcVars, configVars,
                   fnVars>>

\* a redirect callback sent while nothing accepts on the port: before the
\* bind, after a failed bind, or once handle_request() has taken its single
\* request
CallbackNotServed ==
    /\ Alive
    /\ UrlPresented
    /\ lpc # "listening"
    /\ lost < MaxLost
    /\ lost' = lost + 1
    /\ UNCHANGED <<lpc, request, auth_code_bucket, code_received, writers,
                   late_callback>>
    /\ UNCHANGED <<pc, exit_code, waitVars, brokerVars, rpcVars, configVars,
                   fnVars>>

Listener ==
    \/ ListenerBind
    \/ ListenerBindFails
    \/ \E r \in Requests : AcceptRequest(r)
    \/ HandlerStore
    \/ HandlerFinish
    \/ CallbackNotServed

(* ----------------------- main: login and the wait --------------------- *)
\* main lines 126-131
CheckConfig ==
    /\ pc = "check_config"
    /\ IF \E k \in ConfigKeys : ConfigRejected(config[k])
         THEN Exit(1)
         ELSE pc' = "start_listener" /\ UNCHANGED exit_code
    /\ UNCHANGED <<listenerVars, waitVars, brokerVars, rpcVars, configVars,
                   fnVars>>

\* main lines 139-140: Thread.start() returns once the thread runs, not
\* once it has bound the port
StartListener ==
    /\ pc = "start_listener"
    /\ lpc' = "starting"
    /\ pc' = "print_url"
    /\ UNCHANGED <<exit_code, request, auth_code_bucket, code_received, lost,
                   writers, late_callback>>
    /\ UNCHANGED <<waitVars, brokerVars, rpcVars, configVars, fnVars>>

\* main lines 142-147: the authorization URL is shown to the user
PrintAuthUrl ==
    /\ pc = "print_url"
    /\ pc' = "wait"
    /\ UNCHANGED <<exit_code, listenerVars, waitVars, brokerVars, rpcVars,
                   configVars, fnVars>>

\* main line 148, the event is set: wait() returns True
WaitSignalled ==
    /\ pc = "wait"
    /\ code_received
    /\ pc' = "check_error"
    /\ consumed' = consumed + 1
    /\ timed_out' = FALSE
    /\ UNCHANGED <<exit_code, listenerVars, brokerVars, rpcVars, configVars,
                   fnVars>>

\* WaitTimeout had line 148 been _code_received.wait(): no timeout
WaitTimeout_Never ==
    /\ pc = "wait"
    /\ FALSE
    /\ UNCHANGED vars

\* main line 148, 300 seconds pass without the event: wait() returns False
\* and the return value is dropped
WaitTimeout ==
    /\ pc = "wait"
    /\ ~code_received
    /\ pc' = "check_error"
    /\ consumed' = consumed + 1
    /\ timed_out' = TRUE
    /\ UNCHANGED <<exit_code, listenerVars, brokerVars, rpcVars, configVars,
                   fnVars>>

\* main lines 149-151
CheckError ==
    /\ pc = "check_error"
    /\ IF auth_code_bucket.error # None
         THEN Exit(1)
         ELSE pc' = "read_code" /\ UNCHANGED exit_code
    /\ UNCHANGED <<listenerVars, waitVars, brokerVars, rpcVars, configVars,
                   fnVars>>

\* main lines 152-157
ReadCode ==
    /\ pc = "read_code"
    /\ code' = auth_code_bucket.code
    /\ IF auth_code_bucket.code = None
         THEN Exit(1)
         ELSE pc' = "exchange" /\ UNCHANGED exit_code
    /\ UNCHANGED <<user_token, mcp_scope, mcp_token, auth_calls, meta_calls,
                   obo_calls, obo_assertion, obo_scope>>
    /\ UNCHANGED <<listenerVars, waitVars, rpcVars, configVars, fnVars>>

Login ==
    \/ CheckConfig
    \/ StartListener
    \/ PrintAuthUrl
    \/ WaitSignalled
    \/ WaitTimeout
    \/ CheckError
    \/ ReadCode

(* --------------------------- token broker ----------------------------- *)
\* what the token endpoint answers to the authorization-code grant: an
\* error object, or a payload with an access_token that may be the empty
\* string or carry expires_in = 0
UserTokenResponses ==
    {[ok |-> FALSE, token |-> None, expired |-> FALSE]}
      \cup [ok : {TRUE}, token : {"", "user.tok"}, expired : BOOLEAN]

\* the identity provider grants the on-behalf-of request only for an
\* assertion it accepts: a non-empty token that has not expired
OboResponses(assertion) ==
    {[ok |-> FALSE, token |-> None]}
      \cup (IF assertion.token # "" /\ ~assertion.expired
              THEN {[ok |-> TRUE, token |-> "mcp.tok"]} ELSE {})

\* main lines 171-177: the result is accepted when the key is present
HasAccessToken(result) == result.ok

\* AcquireUserToken without the test of lines 171-175
AcquireUserToken_NoCheck ==
    /\ pc = "exchange"
    /\ auth_calls' = auth_calls + 1
    /\ \E result \in UserTokenResponses :
         /\ user_token' = IF HasAccessToken(result)
                            THEN [token |-> result.token,
                                  expired |-> result.expired]
                            ELSE user_token
         /\ pc' = "discover"
         /\ UNCHANGED exit_code
    /\ UNCHANGED <<code, mcp_scope, mcp_token, meta_calls, obo_calls,
                   obo_assertion, obo_scope>>
    /\ UNCHANGED <<listenerVars, waitVars, rpcVars, configVars, fnVars>>

\* main lines 159-179
AcquireUserToken ==
    /\ pc = "exchange"
    /\ auth_calls' = auth_calls + 1
    /\ \E result \in UserTokenResponses :
         IF ~HasAccessToken(result)
           THEN Exit(1) /\ UNCHANGED user_token
           ELSE /\ user_token' = [token |-> result.token,
                                  expired |-> result.expired]
                /\ pc' = "discover"
                /\ UNCHANGED exit_code
    /\ UNCHANGED <<code, mcp_scope, mcp_token, meta_calls, obo_calls,
                   obo_assertion, obo_scope>>
    /\ UNCHANGED <<listenerVars, waitVars, rpcVars, configVars, fnVars>>

RECURSIVE SeqsUpTo(_, _)
SeqsUpTo(S, n) ==
    IF n = 0 THEN {<<>>}
    ELSE LET shorter == SeqsUpTo(S, n - 1)
         IN  shorter \cup { Append(q, x) : q \in shorter, x \in S }

\* a request to RESOURCE_HOST can be answered: "https://<your-mcp-host>"
\* names no host, so requests raises for it
HostAnswers == config["RESOURCE_HOST"] = ConfigReal["RESOURCE_HOST"]

\* what GET {base}/.well-known/oauth-protected-resource yields: the request
\* raises, or a status with a body; "json" tells whether the body is a JSON
\* object, scopes is its scopes_supported (<<>> when the key is absent)
MetaResponses ==
    {[raises |-> TRUE, status |-> 0, json |-> FALSE, scopes |-> <<>>]}
      \cup (IF ~HostAnswers THEN {} ELSE
             [raises : {FALSE}, status : {404}, json : {FALSE},
              scopes : {<<>>}]
               \cup [raises : {FALSE}, status : {200}, json : {FALSE},
                     scopes : {<<>>}]
               \cup [raises : {FALSE}, status : {200}, json : {TRUE},
                     scopes : SeqsUpTo(ScopeNames, MaxScopes)])

\* main line 200
IsApiScope(s) == s \notin GenericScopes
ApiScopes(scopes) == SelectSeq(scopes, IsApiScope)

\* ResolveScope taking api_scopes[-1] at line 202
ResolveScope_Last(resp) ==
    IF resp.raises \/ resp.status # 200 \/ ~resp.json
         \/ ApiScopes(resp.scopes) = <<>>
      THEN None
      ELSE ApiScopes(resp.scopes)[Len(ApiScopes(resp.scopes))]

\* main lines 192-213: the scope discovery resolves from a metadata
\* response, None when it ends in sys.exit(1)
ResolveScope(resp) ==
    IF resp.raises \/ resp.status # 200 \/ ~resp.json
         \/ ApiScopes(resp.scopes) = <<>>
      THEN None
      ELSE Head(ApiScopes(resp.scopes))

\* DiscoverScope without the sys.exit(1) of lines 206, 210 and 213
DiscoverScope_NoExit ==
    /\ pc = "discover"
    /\ IF MCP_SCOPE # ""
         THEN /\ mcp_scope' = MCP_SCOPE
              /\ UNCHANGED meta_calls
         ELSE /\ meta_calls' = meta_calls + 1
              /\ \E resp \in MetaResponses :
                   mcp_scope' = IF ResolveScope(resp) = None
                                  THEN MCP_SCOPE ELSE ResolveScope(resp)
    /\ pc' = "obo"
    /\ UNCHANGED exit_code
    /\ UNCHANGED <<code, user_token, mcp_token, auth_calls, obo_calls,
                   obo_assertion, obo_scope>>
    /\ UNCHANGED <<listenerVars, waitVars, rpcVars, configVars, fnVars>>

\* main lines 186-215
DiscoverScope ==
    /\ pc = "discover"
    /\ IF MCP_SCOPE # ""
         THEN /\ mcp_scope' = MCP_SCOPE
              /\ pc' = "obo"
              /\ UNCHANGED <<meta_calls, exit_code>>
         ELSE /\ meta_calls' = meta_calls + 1
              /\ \E resp \in MetaResponses :
                   IF ResolveScope(resp) = None
                     THEN Exit(1) /\ UNCHANGED mcp_scope
                     ELSE /\ mcp_scope' = ResolveScope(resp)
                          /\ pc' = "obo"
                          /\ UNCHANGED exit_code
    /\ UNCHANGED <<code, user_token, mcp_token, auth_calls, obo_calls,
                   obo_assertion, obo_scope>>
    /\ UNCHANGED <<listenerVars, waitVars, rpcVars, configVars, fnVars>>

\* OboExchange that asks again when the response has no access token
OboExchange_Retry ==
    /\ pc = "obo"
    /\ obo_calls < 2
    /\ obo_calls' = obo_calls + 1
    /\ obo_assertion' = user_token
    /\ obo_scope' = mcp_scope
    /\ \E result \in OboResponses(user_token) :
         IF ~HasAccessToken(result)
           THEN UNCHANGED <<pc, exit_code, mcp_token>>
           ELSE /\ mcp_token' = result.token
                /\ pc' = "initialize"
                /\ UNCHANGED exit_code
    /\ UNCHANGED <<code, user_token, mcp_scope, auth_calls, meta_calls>>
    /\ UNCHANGED <<listenerVars, waitVars, rpcVars, configVars, fnVars>>

\* main lines 222-235
OboExchange ==
    /\ pc = "obo"
    /\ obo_calls' = obo_calls + 1
    /\ obo_assertion' = user_token
    /\ obo_scope' = mcp_scope
    /\ \E result \in OboResponses(user_token) :
         IF ~HasAccessToken(result)
           THEN Exit(1) /\ UNCHANGED mcp_token
           ELSE /\ mcp_token' = result.token
                /\ pc' = "initialize"
                /\ UNCHANGED exit_code
    /\ UNCHANGED <<code, user_token, mcp_scope, auth_calls, meta_calls>>
    /\ UNCHANGED <<listenerVars, waitVars, rpcVars, configVars, fnVars>>

Broker ==
    \/ AcquireUserToken
    \/ DiscoverScope
    \/ OboExchange

(* -------------------------- response parsing -------------------------- *)
\* A response text is a sequence of tokens:
\*   "SP"     a space
\*   "LF"     "\n"
\*   "LS"     U+2028, which JSON allows unescaped inside a string and which
\*            str.splitlines() and str.strip() treat as a line boundary and
\*            as whitespace
\*   "data:"  the marker of an SSE data line
\*   "event:" the text "event: message"
\*   "{1}"    the JSON document {"a":1}
\*   "{s" "s}" the opening {"a":"x and the closing y"} of a JSON document
\*            whose string value continues between them
\*   "junk"   text that is not JSON
Whitespace == {"SP", "LF", "LS"}
LineBoundaries == {"LF", "LS"}
Fail == "<JSONDecodeError>"

RECURSIVE LStrip(_)
LStrip(t) ==
    IF t # <<>> /\ Head(t) \in Whitespace THEN LStrip(Tail(t)) ELSE t
RECURSIVE RStrip(_)
RStrip(t) ==
    IF t # <<>> /\ t[Len(t)] \in Whitespace
      THEN RStrip(SubSeq(t, 1, Len(t) - 1)) ELSE t
\* str.strip()
Strip(t) == RStrip(LStrip(t))

\* json.loads on a stripped text: the value, or Fail. A raw "\n" inside a
\* string is a control character and is refused; a space or U+2028 is not
JsonLoadsText(t) ==
    CASE t = <<"{1}">>             -> "a=1"
      [] t = <<"{s", "SP", "s}">>  -> "a=x y"
      [] t = <<"{s", "LS", "s}">>  -> "a=x<U+2028>y"
      [] OTHER                     -> Fail

\* str.splitlines(): the text cut at every line boundary
RECURSIVE SplitLines(_, _)
SplitLines(t, line) ==
    IF t = <<>> THEN (IF line = <<>> THEN <<>> ELSE <<line>>)
    ELSE IF Head(t) \in LineBoundaries
           THEN <<line>> \o SplitLines(Tail(t), <<>>)
           ELSE SplitLines(Tail(t), Append(line, Head(t)))

\* parse_sse_or_json lines 112-121: the first data line whose payload parses
RECURSIVE FirstDataLine(_)
FirstDataLine(lines) ==
    IF lines = <<>> THEN None
    ELSE LET line == Strip(Head(lines))
         IN  IF line # <<>> /\ Head(line) = "data:"
                  /\ JsonLoadsText(Strip(Tail(line))) # Fail
               THEN JsonLoadsText(Strip(Tail(line)))
               ELSE FirstDataLine(Tail(lines))

\* parse_sse_or_json lines 103-121
parse_sse_or_json(text) ==
    IF JsonLoadsText(Strip(text)) # Fail
      THEN JsonLoadsText(Strip(text))
      ELSE FirstDataLine(SplitLines(Strip(text), <<>>))

\* the payloads the parser is tried on, and what precedes the data line in
\* the SSE framing of a payload: nothing, an event line, a data line that
\* carries no JSON
PayloadTokens == {"{1}", "{s", "s}", "SP", "LS", "junk"}
Payloads == SeqsUpTo(PayloadTokens, MaxPayload)
Preambles == {<<>>, <<"event:", "LF">>, <<"data:", "SP", "junk", "LF">>}
\* the body that is the payload alone, and the body that frames it
PlainBody(arg) == arg.payload
SseBody(arg) == arg.preamble \o <<"data:", "SP">> \o arg.payload
                  \o <<"LF", "LF">>

(* --------------------------- session client --------------------------- *)
\* the parameter schemas the resource may advertise
ToolEcho == [name |-> "echo",
             properties |-> <<[name |-> "x", type |-> "string"]>>,
             required |-> {"x"}]
ToolSum == [name |-> "sum",
            properties |-> <<[name |-> "n", type |-> "integer"],
                             [name |-> "flag", type |-> "boolean"]>>,
            required |-> {"n"}]
\* "x" is listed in required but not in properties
ToolPing == [name |-> "ping",
             properties |-> <<[name |-> "opts", type |-> "object"]>>,
             required |-> {"x", "opts"}]
\* result.tools of a tools/list response (<<>>: no tools, no result, or a
\* body that parses neither as JSON nor as SSE)
Catalogs == {<<>>, <<ToolEcho>>, <<ToolEcho, ToolSum>>, <<ToolPing, ToolEcho>>}

\* a POST raises (connection error), or returns a status
RpcResponses ==
    { r \in [raises : BOOLEAN, status : {200, 500}, parses : BOOLEAN] :
        /\ ~HostAnswers => r.raises
        /\ r.raises => (r.status = 500 /\ ~r.parses) }

\* the response came back and is not a 200 that parse_sse_or_json reads
Failed(resp) == ~resp.raises /\ (resp.status # 200 \/ ~resp.parses)

\* what the user types for one parameter (already stripped)
InputVals == {"", "1", "abc"}

\* json.loads on the inputs above: the value, or "fail" for JSONDecodeError
JsonLoads(val) ==
    CASE val = "1"    -> [tag |-> "int", v |-> "1"]
      [] val = "true" -> [tag |-> "bool", v |-> "true"]
      [] OTHER        -> [tag |-> "fail", v |-> val]

Str(val) == [tag |-> "str", v |-> val]

\* main lines 343-355: the value stored for a parameter of the given type
ConvertValue(type, val) ==
    CASE type \in {"integer", "number"} ->
           IF JsonLoads(val).tag = "fail" THEN Str(val) ELSE JsonLoads(val)
      [] type = "boolean" ->
           [tag |-> "bool",
            v |-> IF val \in {"true", "1", "yes"} THEN "true" ELSE "false"]
      [] type \in {"object", "array"} ->
           IF JsonLoads(val).tag = "fail" THEN Str(val) ELSE JsonLoads(val)
      [] OTHER -> Str(val)

\* Omitted without the test of `required` at line 341
Omitted_AnyEmpty(param_name, val, required) == val = ""

\* main lines 341-342: the parameter is left out of the arguments
Omitted(param_name, val, required) == val = "" /\ param_name \notin required

\* main lines 329-356: the arguments mapping, built in properties order from
\* the values typed (vals: parameter name -> input)
RECURSIVE CollectArguments(_, _, _)
CollectArguments(properties, required, vals) ==
    IF properties = <<>> THEN <<>>
    ELSE LET p == Head(properties)
             rest == CollectArguments(Tail(properties), required, vals)
         IN  IF Omitted(p.name, vals[p.name], required)
               THEN rest
               ELSE (p.name :> ConvertValue(p.type, vals[p.name])) @@ rest

tool_names == [i \in 1..Len(tools) |-> tools[i].name]
ToolNameSet == { tools[i].name : i \in 1..Len(tools) }
\* main line 324: the first tool of that name
ToolDef(name) ==
    tools[CHOOSE i \in 1..Len(tools) :
            tools[i].name = name /\ \A j \in 1..(i - 1) : tools[j].name # name]
ParamNames(tool) ==
    { tool.properties[i].name : i \in 1..Len(tool.properties) }

\* what the user types at the prompt (stripped): text, whether
\* str.isdigit() holds of it, and int(text) (-1: int() raises ValueError,
\* as for the superscript digit U+00B2)
QuitWords == {"quit", "exit", "q", ""}
TypedChoices ==
    [text : {"", "echo", "sum", "ping", "nosuch"},
     isdigit : {FALSE}, int : {-1}]
      \cup { [text |-> ToString(k), isdigit |-> TRUE, int |-> k] : k \in 0..2 }
      \cup { [text |-> "sup2", isdigit |-> TRUE, int |-> -1] }

\* requests.post(mcp_url, json=payload, headers=headers)
Post(id, method, authorization) ==
    sent' = Append(sent, [id |-> id, method |-> method,
                          bearer |-> authorization])

\* Initialize with the headers of line 246 built from the user token
Initialize_UserBearer ==
    /\ pc = "initialize"
    /\ bearer' = user_token.token
    /\ Post(1, "initialize", user_token.token)
    /\ \E resp \in RpcResponses :
         /\ rpc_failed' = (rpc_failed \/ Failed(resp))
         /\ IF resp.raises \/ resp.status # 200
              THEN Exit(1)
              ELSE pc' = "list_tools" /\ UNCHANGED exit_code
    /\ UNCHANGED <<tools, call_id, choice, typed, call_payload, rejected>>
    /\ UNCHANGED <<listenerVars, waitVars, brokerVars, configVars, fnVars>>

\* main lines 242-270
Initialize ==
    /\ pc = "initialize"
    /\ bearer' = mcp_token
    /\ Post(1, "initialize", mcp_token)
    /\ \E resp \in RpcResponses :
         /\ rpc_failed' = (rpc_failed \/ Failed(resp))
         /\ IF resp.raises \/ resp.status # 200
              THEN Exit(1)
              ELSE pc' = "list_tools" /\ UNCHANGED exit_code
    /\ UNCHANGED <<tools, call_id, choice, typed, call_payload, rejected>>
    /\ UNCHANGED <<listenerVars, waitVars, brokerVars, configVars, fnVars>>

\* main lines 273-297: the status of the tools/list response is printed
\* and not tested
ListTools ==
    /\ pc = "list_tools"
    /\ Post(2, "tools/list", bearer)
    /\ \E resp \in RpcResponses, listed \in Catalogs :
         /\ resp.parses \/ listed = <<>>
         /\ rpc_failed' = (rpc_failed \/ Failed(resp))
         /\ IF resp.raises
              THEN Exit(1) /\ UNCHANGED <<tools, call_id>>
              ELSE /\ tools' = listed
                   /\ IF listed = <<>>
                        THEN Exit(0) /\ UNCHANGED call_id
                        ELSE /\ call_id' = 3
                             /\ pc' = "prompt"
                             /\ UNCHANGED exit_code
    /\ UNCHANGED <<bearer, choice, typed, call_payload, rejected>>
    /\ UNCHANGED <<listenerVars, waitVars, brokerVars, configVars, fnVars>>

\* main lines 305-308
PromptQuit ==
    /\ pc = "prompt"
    /\ \E c \in TypedChoices :
         /\ c.text \in QuitWords
         /\ choice' = c.text
    /\ Exit(0)
    /\ UNCHANGED <<bearer, tools, call_id, typed, call_payload, sent,
                   rejected>>
    /\ UNCHANGED rpc_failed
    /\ UNCHANGED <<listenerVars, waitVars, brokerVars, configVars, fnVars>>

\* main line 312 when int() raises on a string isdigit() accepts: the
\* ValueError is not caught
PromptIntError ==
    /\ pc = "prompt"
    /\ \E c \in TypedChoices :
         /\ c.text \notin QuitWords
         /\ c.isdigit /\ c.int = -1
         /\ choice' = c.text
    /\ Exit(1)
    /\ UNCHANGED <<bearer, tools, call_id, typed, call_payload, sent,
                   rejected>>
    /\ UNCHANGED rpc_failed
    /\ UNCHANGED <<listenerVars, waitVars, brokerVars, configVars, fnVars>>

\* main lines 311-317
PromptInvalidNumber ==
    /\ pc = "prompt"
    /\ \E c \in TypedChoices :
         /\ c.text \notin QuitWords
         /\ c.isdigit /\ c.int # -1
         /\ ~(0 <= c.int - 1 /\ c.int - 1 < Len(tools))
         /\ choice' = c.text
    /\ rejected' = TRUE
    /\ UNCHANGED <<pc, exit_code, bearer, tools, call_id, typed, call_payload,
                   sent>>
    /\ UNCHANGED rpc_failed
    /\ UNCHANGED <<listenerVars, waitVars, brokerVars, configVars, fnVars>>

\* PromptUnknownTool with line 368 (call_id += 1) run before the test of
\* line 319
PromptUnknownTool_BumpsId ==
    /\ pc = "prompt"
    /\ \E c \in TypedChoices :
         /\ c.text \notin QuitWords
         /\ ~c.isdigit
         /\ c.text \notin ToolNameSet
         /\ choice' = c.text
    /\ rejected' = TRUE
    /\ call_id' = IF call_id < 3 + MaxCalls THEN call_id + 1 ELSE call_id
    /\ UNCHANGED <<pc, exit_code, bearer, tools, typed, call_payload, sent>>
    /\ UNCHANGED rpc_failed
    /\ UNCHANGED <<listenerVars, waitVars, brokerVars, configVars, fnVars>>

\* main lines 319-321
PromptUnknownTool ==
    /\ pc = "prompt"
    /\ \E c \in TypedChoices :
         /\ c.text \notin QuitWords
         /\ ~c.isdigit
         /\ c.text \notin ToolNameSet
         /\ choice' = c.text
    /\ rejected' = TRUE
    /\ UNCHANGED <<pc, exit_code, bearer, tools, call_id, typed, call_payload,
                   sent>>
    /\ UNCHANGED rpc_failed
    /\ UNCHANGED <<listenerVars, waitVars, brokerVars, configVars, fnVars>>

\* main lines 311-314 and 319: the tool name a selection resolves to
Resolved(c) ==
    IF c.isdigit THEN tool_names[c.int] ELSE c.text

\* main lines 305-319: the tool names the inputs that pass the three tests
\* resolve to
Selections ==
    { Resolved(c) : c \in { d \in TypedChoices :
                              /\ d.text \notin QuitWords
                              /\ IF d.isdigit THEN d.int \in 1..Len(tools)
                                              ELSE d.text \in ToolNameSet } }

\* main lines 371-377: what the loop can tell of a tools/call response
CallOutcomes ==
    { [raises |-> r.raises, failed |-> Failed(r)] : r \in RpcResponses }

\* main lines 305-377 for a selection that resolves to a listed tool
CallTool ==
    /\ pc = "prompt"
    /\ call_id < 3 + MaxCalls
    /\ \E name \in Selections :
         LET tool_def == ToolDef(name)
         IN  \E vals \in [ParamNames(tool_def) -> InputVals] :
               /\ choice' = name
               /\ typed' = vals
               /\ call_payload' =
                    [id |-> call_id, name |-> name,
                     arguments |-> CollectArguments(tool_def.properties,
                                       tool_def.required, vals)]
               /\ Post(call_id, "tools/call", bearer)
    /\ call_id' = call_id + 1
    /\ \E out \in CallOutcomes :
         /\ rpc_failed' = (rpc_failed \/ out.failed)
         /\ IF out.raises THEN Exit(1)
                          ELSE UNCHANGED <<pc, exit_code>>
    /\ UNCHANGED <<bearer, tools, rejected>>
    /\ UNCHANGED <<listenerVars, waitVars, brokerVars, configVars, fnVars>>

Session ==
    \/ Initialize
    \/ ListTools
    \/ PromptQuit
    \/ PromptIntError
    \/ PromptInvalidNumber
    \/ PromptUnknownTool
    \/ CallTool

(* ------------------------------ claims -------------------------------- *)
\* the main flow is at or past the token exchange of line 165
PastWait == pc \in {"exchange", "discover", "obo", "initialize",
                    "list_tools", "prompt"}

\* C1: a JSON-RPC request is posted only after the on-behalf-of exchange has
\* returned an access token, and the on-behalf-of exchange is invoked only
\* after the authorization-code exchange has returned an access token.
C1_StepsInOrder ==
    /\ sent # <<>> => (obo_calls > 0 /\ mcp_token # None)
    /\ obo_calls > 0 => (auth_calls > 0 /\ user_token # NoToken)
    /\ auth_calls > 0 => code # None

\* C1 witness: the whole chain has run and a tools/call has been posted
C1_Witness == Len(sent) >= 3 /\ sent[3].method = "tools/call"

\* C2: acquire_token_on_behalf_of is never called with a user token that is
\* empty or expired, whatever the token endpoint answered.
C2_OboOnlyWithValidUserToken ==
    obo_calls > 0 => (obo_assertion.token # "" /\ ~obo_assertion.expired)

\* C3: the ids of the requests posted in a run are 1, 2, 3, ... in order,
\* also when selections are refused between calls.
C3_RequestIds == \A i \in 1..Len(sent) : sent[i].id = i

\* C3 witness: two tools/call requests were posted in a run in which a
\* selection was refused
C3_Witness == Len(sent) = 4 /\ rejected /\ sent[4].method = "tools/call"

\* C4: a tools/call request is posted only when a value was supplied for
\* every parameter the selected tool lists as required.
C4_RequiredValuesSupplied ==
    call_payload.id # 0 =>
        \A x \in ToolDef(call_payload.name).required :
            x \in DOMAIN typed /\ typed[x] # ""

\* C5: a selection that names no listed tool (or a number out of range)
\* posts nothing and leaves the loop at the prompt.
C5_UnknownSelectionReturnsToPrompt ==
    [][(pc = "prompt" /\ choice' \notin (ToolNameSet \cup QuitWords))
         => (sent' = sent /\ pc' = "prompt")]_vars

\* C6: when the callback comes after the wait has timed out, the main flow
\* never goes on to exchange the code the listener wrote after the timeout.
C6_LateCodeNeverExchanged ==
    late_callback => (~PastWait /\ auth_calls = 0)

\* C7: the wait for the authorization code always ends, and the run then
\* either reaches the token exchange or ends with a failure exit.
C7_WaitAlwaysEnds ==
    (pc = "wait") ~> (pc = "exchange" \/ exit_code = 1)

\* C7 witness: nothing was ever written by a callback, the wait ended by
\* its timeout and the run ended with a failure exit
C7_Witness ==
    timed_out /\ writers = 0 /\ exit_code = 1 /\ auth_calls = 0

\* C8: the listener stops listening only once it has accepted a request for
\* the redirect path and delivered its result; a request for another path
\* does not end listening.
C8_StopsOnlyAfterMatchingCallback ==
    lpc = "stopped" => (writers = 1 /\ code_received)

\* C9: the listener is bound and listening at the moment the authorization
\* URL is presented.
C9_ListeningWhenUrlPresented ==
    [][(pc = "print_url" /\ pc' = "wait") => lpc = "listening"]_vars

\* C10: the code-or-error result is written by at most one inbound request
\* and taken by the main flow at most once.
C10_OneShotHandoff == writers <= 1 /\ consumed <= 1

\* C10 witness: one callback wrote a code and the main flow took it
C10_Witness == writers = 1 /\ consumed = 1 /\ code = "c1"

\* C11: when one of the six required settings is empty or still a
\* placeholder, the run ends with a failure exit before the listener is
\* started and before any network call.
C11_BadConfigStopsFirst ==
    (\E k \in ConfigKeys : config[k] = "" \/ IsPlaceholder(config[k]))
      => /\ pc \in {"check_config", "exited"}
         /\ pc = "exited" => exit_code = 1
         /\ lpc = "idle"
         /\ auth_calls = 0 /\ meta_calls = 0 /\ obo_calls = 0 /\ sent = <<>>

\* C12: with an explicit downstream scope the metadata endpoint is never
\* requested and that scope goes to the on-behalf-of exchange; without one
\* the endpoint is requested at most once and a failed discovery ends the
\* run before the exchange.
C12_DiscoveryOnlyWhenNeeded ==
    /\ MCP_SCOPE # "" =>
         (meta_calls = 0 /\ (obo_calls > 0 => obo_scope = MCP_SCOPE))
    /\ MCP_SCOPE = "" =>
         /\ meta_calls <= 1
         /\ obo_calls > 0 =>
              (meta_calls = 1 /\ obo_scope \in {"custom.scope", "api.read"})
         /\ (meta_calls = 1 /\ mcp_scope = None) =>
              (pc = "exited" /\ exit_code = 1 /\ obo_calls = 0)

\* C12 witness: no scope was configured, discovery ran once and its scope
\* went to the on-behalf-of exchange
C12_Witness ==
    MCP_SCOPE = "" /\ meta_calls = 1 /\ obo_calls = 1 /\ obo_scope = "api.read"

\* C13: discovery resolves the first entry of scopes_supported, in list
\* order, that is not openid, profile, email or offline_access, and fails
\* when no such entry exists.
C13_FirstApiScopeInOrder ==
    fn_ret # NotRun =>
      LET scopes == fn_arg.scopes
          generic == {"openid", "profile", "email", "offline_access"}
          usable == ~fn_arg.raises /\ fn_arg.status = 200 /\ fn_arg.json
                      /\ \E i \in 1..Len(scopes) : scopes[i] \notin generic
      IN  IF usable
            THEN \E i \in 1..Len(scopes) :
                   /\ scopes[i] \notin generic
                   /\ \A j \in 1..(i - 1) : scopes[j] \in generic
                   /\ fn_ret = scopes[i]
            ELSE fn_ret = None

\* C13 witness: the list of the end-to-end scenario
C13_Witness ==
    /\ fn_ret = "custom.scope"
    /\ fn_arg.scopes = <<"openid", "profile", "custom.scope">>

\* C20: the arguments of a posted tools/call name only declared parameters;
\* a declared parameter is left out exactly when it is not required and
\* nothing was typed for it; an object or array value that is not JSON is
\* sent as the string typed, and the call is posted all the same.
C20_ArgumentsFollowSchema ==
    call_payload.id # 0 =>
      LET tool_def == ToolDef(call_payload.name)
          arguments == call_payload.arguments
          declared == { tool_def.properties[i] :
                          i \in 1..Len(tool_def.properties) }
      IN  /\ DOMAIN arguments \subseteq { p.name : p \in declared }
          /\ \A p \in declared :
               /\ p.name \notin DOMAIN arguments
                    <=> (p.name \notin tool_def.required
                           /\ typed[p.name] = "")
               /\ (/\ p.type \in {"object", "array"}
                   /\ p.name \in DOMAIN arguments
                   /\ JsonLoads(typed[p.name]).tag = "fail")
                    => arguments[p.name] = Str(typed[p.name])
          /\ sent[Len(sent)].method = "tools/call"
          /\ sent[Len(sent)].id = call_payload.id

\* C20 witness: a call was posted whose required object parameter was typed
\* as text that is not JSON
C20_Witness ==
    /\ call_payload.name = "ping"
    /\ typed["opts"] = "abc"
    /\ call_payload.arguments = ("opts" :> Str("abc"))
    /\ sent[Len(sent)].id = call_payload.id

\* C19: a callback with an error parameter records only the error, as the
\* description or "Unknown error", and leaves code and state unset also
\* when the request carries a code; the token endpoint is never called, and
\* the main flow ends with exit status 1.
ErrorRecorded == auth_code_bucket.error # None
C19_ErrorTakesPrecedence ==
    /\ [](ErrorRecorded =>
            /\ auth_code_bucket.error \in {"user cancelled", "Unknown error"}
            /\ auth_code_bucket.code = None
            /\ auth_code_bucket.state = None
            /\ ~PastWait
            /\ auth_calls = 0
            /\ pc = "exited" => exit_code = 1)
    /\ (ErrorRecorded ~> (pc = "exited" /\ exit_code = 1))

\* C19 witness: the handler has stored the outcome of a request that carries
\* both an error and a code
C19_Witness ==
    /\ lpc = "stored"
    /\ request.error # None /\ request.code = "c1"
    /\ auth_code_bucket.error = "Unknown error"
    /\ auth_code_bucket.code = None

\* C18: the code is exchanged at the token endpoint only when the state the
\* callback delivered with it equals the state sent in the authorization URL.
C18_ExchangeOnlyWithSentState ==
    auth_calls > 0 => auth_code_bucket.state = SentState

\* C17: the authorization-code exchange and the on-behalf-of exchange are
\* each invoked at most once in a run, and a response without an access
\* token from either ends the run with exit status 1 before anything else
\* is asked of the identity provider or the resource.
C17_ExchangesOnceAndFatal ==
    /\ auth_calls <= 1
    /\ obo_calls <= 1
    /\ (auth_calls = 1 /\ user_token = NoToken) =>
         (pc = "exited" /\ exit_code = 1 /\ meta_calls = 0 /\ obo_calls = 0
            /\ sent = <<>>)
    /\ (obo_calls = 1 /\ mcp_token = None) =>
         (pc = "exited" /\ exit_code = 1 /\ sent = <<>>)

\* C17 witness: the code was exchanged once and the on-behalf-of exchange,
\* asked once, returned no access token
C17_Witness ==
    /\ auth_calls = 1 /\ user_token.token = "user.tok"
    /\ obo_calls = 1 /\ mcp_token = None
    /\ pc = "exited"

\* C16: every request posted to the resource carries the token the
\* on-behalf-of exchange returned as its bearer value, and never the user
\* token of the authorization-code exchange.
C16_BearerIsDownstreamToken ==
    \A i \in 1..Len(sent) :
      /\ mcp_token # None
      /\ sent[i].bearer = mcp_token
      /\ sent[i].bearer # user_token.token

\* C16 witness: initialize, tools/list and a tools/call were posted in a run
\* that holds both tokens
C16_Witness ==
    /\ Len(sent) >= 3
    /\ sent[3].method = "tools/call"
    /\ sent[3].bearer = "mcp.tok"
    /\ user_token.token = "user.tok"

\* C15: once a response to initialize, tools/list or tools/call was not 200
\* or could not be parsed, no request is sent to the resource any more.
C15_FailedRpcIsTerminal == [][rpc_failed => sent' = sent]_vars

\* C14: for every JSON payload, parsing the body that is the payload and
\* parsing the SSE body that carries it on a "data: " line give the same
\* value; a body with neither valid JSON nor a data line of valid JSON gives
\* None.
C14_PlainAndFramedAgree ==
    fn_ret.plain # NotRun =>
      /\ JsonLoadsText(fn_arg.payload) # Fail =>
           /\ fn_ret.plain = JsonLoadsText(fn_arg.payload)
           /\ fn_ret.framed = fn_ret.plain
      /\ JsonLoadsText(Strip(fn_arg.payload)) = Fail => fn_ret.plain = None

Next == Listener \/ Login \/ Broker \/ Session

Spec == Init /\ [][Next]_vars

\* scope resolution on its own: every metadata response, then the function
ScopeInit ==
    /\ ProgramInit
    /\ config = ConfigReal
    /\ MCP_SCOPE = ""
    /\ fn_arg \in MetaResponses
    /\ fn_ret = NotRun

ApplyResolveScope ==
    /\ fn_ret = NotRun
    /\ fn_ret' = ResolveScope(fn_arg)
    /\ UNCHANGED <<fn_arg, pc, exit_code, listenerVars, waitVars, brokerVars,
                   rpcVars, configVars>>

ScopeSpec == ScopeInit /\ [][ApplyResolveScope]_vars

\* the response parser on its own: every payload and framing, then the
\* function on both bodies
ParseInit ==
    /\ ProgramInit
    /\ config = ConfigReal
    /\ MCP_SCOPE = ""
    /\ fn_arg \in [payload : Payloads, preamble : Preambles]
    /\ fn_ret = [plain |-> NotRun, framed |-> NotRun]

ApplyParse ==
    /\ fn_ret.plain = NotRun
    /\ fn_ret' = [plain |-> parse_sse_or_json(PlainBody(fn_arg)),
                  framed |-> parse_sse_or_json(SseBody(fn_arg))]
    /\ UNCHANGED <<fn_arg, pc, exit_code, listenerVars, waitVars, brokerVars,
                   rpcVars, configVars>>

ParseSpec == ParseInit /\ [][ApplyParse]_vars

\* the main thread is always scheduled and the timer of wait(timeout=300)
\* fires; nothing is assumed of the browser or the listener thread
LiveSpec == Init /\ [][Next]_vars /\ WF_vars(Login)
====
